---- MODULE Spec2Model ----
(***************************************************************************)
(* Model of the snippets-app storage layer (src/src/main.rs): the Snippet  *)
(* record, the JSON whole-file backend, the SQLite backend and the backend *)
(* selector build_storage_from_env.                                        *)
(*                                                                         *)
(* Text is modelled structurally.  A snippet name is a sequence of         *)
(* characters; code bodies and timestamps are opaque texts numbered 1..N.  *)
(* The content of the JSON file is a sequence of tokens: "{" (lb), "}"     *)
(* (rb), whitespace (ws) and one token per "key": {record} member.  A      *)
(* strict prefix of a document is therefore not a document.                *)
(* The storage medium itself is assumed to work: the only operation        *)
(* failures modelled are the ones the code derives from the content.       *)
(***************************************************************************)
EXTENDS Integers, Sequences, FiniteSets, TLC

VARIABLES
    file,   \* the JSON file at JsonStorage.path: [exists, content]
    db,     \* the rows of the SQLite table snippets
    last,   \* the most recent trait call, what each backend returned for
            \* it, and the call that preceded it
    env,    \* the environment variable SNIPPETS_APP_STORAGE
    built,  \* the latest build_storage_from_env call: the value it read
            \* and what it returned
    procs,  \* the concurrently running invocations of the program: for
            \* each, where it is in its storage call and what it holds
    writer, \* the invocation whose fs::write completed last
    whole,  \* the complete contents the file was given: the initial one
            \* and the data of every fs::write begun
    table,  \* whether the SQLite database holds the table snippets
    run,    \* the latest run of main: its arguments, the backends it
            \* constructed, the trait calls it made and how it ended
    posts   \* the Post values a program holds: for each, the value, the
            \* arguments it was created with and the states it went through

vars == <<file, db, last, env, built, procs, writer, whole, table, run, posts>>

seqVars == <<last>>
selVars == <<env, built>>
procVars == <<procs, writer, whole>>
cliVars == <<table, run>>
postVars == <<posts>>

----------------------------------------------------------------------------
(* Bounds *)

MaxNameLen == 1
NumCodes == 2
NumTimes == 2
NumProcs == 2
NumPosts == 2

NameChars == {"a"}

SeqsUpTo(S, n) == UNION {[1..k -> S] : k \in 0..n}

Names == SeqsUpTo(NameChars, MaxNameLen)
Codes == 1..NumCodes
Times == 1..NumTimes

----------------------------------------------------------------------------
(* struct Snippet *)

Snippet == [name : Names, code : Codes, created_at : Times]

----------------------------------------------------------------------------
(* Result<T> and Option<T> values *)

Ok(v) == [ok |-> TRUE, val |-> v]
Err(e) == [ok |-> FALSE, err |-> e]
Some(v) == [some |-> TRUE, val |-> v]
None == [some |-> FALSE]
Unit == "()"

----------------------------------------------------------------------------
(* HashMap<String, Snippet>: a set of (key, value) entries *)

Entry(k, v) == [key |-> k, value |-> v]

Keys(map) == {e.key : e \in map}

\* Mutant: the new entry is added without replacing the one under the key.
MapInsert_KeepOld(map, k, v) == map \cup {Entry(k, v)}

\* HashMap::insert: the entry stored under the key, if any, is replaced.
MapInsert(map, k, v) == {e \in map : e.key # k} \cup {Entry(k, v)}

\* HashMap::remove: no-op when the key is not present.
MapRemove(map, k) == {e \in map : e.key # k}

\* HashMap::get(..).cloned()
MapGet(map, k) ==
    IF k \in Keys(map)
    THEN Some((CHOOSE e \in map : e.key = k).value)
    ELSE None

----------------------------------------------------------------------------
(* File content *)

LB == [t |-> "lb"]
RB == [t |-> "rb"]
WS == [t |-> "ws"]
\* Text that cannot occur in an object of records (a number, a bare word)
JUNK == [t |-> "junk"]
\* The members of the top-level object, "key": {record}, as one token: the
\* order in which a HashMap lists them is unspecified and is not tracked.
Members(map) == [t |-> "members", set |-> map]

NoFile == [exists |-> FALSE, content |-> <<>>]
FileOf(c) == [exists |-> TRUE, content |-> c]

\* content.trim().is_empty()
TrimIsEmpty(content) == \A i \in 1..Len(content) : content[i] = WS

NonWs(content) == SelectSeq(content, LAMBDA tok : tok # WS)

\* serde's map visitor inserts the members one by one into a HashMap, so a
\* repeated key keeps a single value.
CollectMembers(set) == {e \in set : e = (CHOOSE x \in set : x.key = e.key)}

\* serde_json::from_str::<HashMap<String, Snippet>>
from_str(content) ==
    LET toks == NonWs(content)
    IN  IF toks = <<LB, RB>> THEN Ok({})
        ELSE IF /\ Len(toks) = 3
                /\ toks[1] = LB
                /\ toks[2].t = "members"
                /\ toks[3] = RB
        THEN Ok(CollectMembers(toks[2].set))
        ELSE Err("Failed to parse JSON storage")

\* serde_json::to_string_pretty(map)
to_string_pretty(map) == <<LB, Members(map), RB>>

\* Mutant: no content.trim().is_empty() test, so blank content is decoded.
load_map_NoBlankCheck(f) ==
    IF ~f.exists THEN Ok({})
    ELSE from_str(f.content)

\* Mutant: no path.exists() test, so a missing file is a read error.
load_map_NoExistsCheck(f) ==
    IF ~f.exists THEN Err("Failed to read JSON storage")
    ELSE IF TrimIsEmpty(f.content) THEN Ok({})
    ELSE from_str(f.content)

\* JsonStorage::load_map
load_map(f) ==
    IF ~f.exists THEN Ok({})
    ELSE IF TrimIsEmpty(f.content) THEN Ok({})
    ELSE from_str(f.content)

\* JsonStorage::save_map, the medium accepting the write: fs::write creates
\* the file or replaces its whole content.
save_map(map) == FileOf(to_string_pretty(map))

----------------------------------------------------------------------------
(* impl SnippetStorage for JsonStorage: each operation yields the file it   *)
(* leaves and the value it returns.                                         *)

Outcome(f, r) == [file |-> f, res |-> r]

\* Mutant: the file is opened for writing, and so emptied, before the load.
JsonSave_TruncateFirst(f, snippet) ==
    LET loaded == load_map(f)
    IN  IF ~loaded.ok THEN Outcome(FileOf(<<>>), loaded)
        ELSE Outcome(save_map(MapInsert(loaded.val, snippet.name, snippet)), Ok(Unit))

\* Mutant: the entry is inserted under the empty key, whatever its name.
JsonSave_EmptyKey(f, snippet) ==
    LET loaded == load_map(f)
    IN  IF ~loaded.ok THEN Outcome(f, loaded)
        ELSE Outcome(save_map(MapInsert(loaded.val, <<>>, snippet)), Ok(Unit))

JsonSave(f, snippet) ==
    LET loaded == load_map(f)
    IN  IF ~loaded.ok THEN Outcome(f, loaded)
        ELSE Outcome(save_map(MapInsert(loaded.val, snippet.name, snippet)), Ok(Unit))

\* Mutant: the loaded mapping is written back before the lookup.
JsonGet_WriteBack(f, name) ==
    LET loaded == load_map(f)
    IN  IF ~loaded.ok THEN Outcome(f, loaded)
        ELSE Outcome(save_map(loaded.val), Ok(MapGet(loaded.val, name)))

JsonGet(f, name) ==
    LET loaded == load_map(f)
    IN  IF ~loaded.ok THEN Outcome(f, loaded)
        ELSE Outcome(f, Ok(MapGet(loaded.val, name)))

\* Mutant: the mapping is emptied (HashMap::clear instead of remove).
JsonDelete_Clear(f, name) ==
    LET loaded == load_map(f)
    IN  IF ~loaded.ok THEN Outcome(f, loaded)
        ELSE Outcome(save_map({}), Ok(Unit))

\* Mutant: removing a name that is not in the mapping is reported as an error.
JsonDelete_MissingIsError(f, name) ==
    LET loaded == load_map(f)
    IN  IF ~loaded.ok THEN Outcome(f, loaded)
        ELSE IF name \notin Keys(loaded.val) THEN Outcome(f, Err("not found"))
        ELSE Outcome(save_map(MapRemove(loaded.val, name)), Ok(Unit))

\* Mutant: a load failure is taken as the empty mapping (unwrap_or_default).
JsonDelete_IgnoreLoadError(f, name) ==
    LET loaded == load_map(f)
    IN  IF ~loaded.ok THEN Outcome(save_map(MapRemove({}, name)), Ok(Unit))
        ELSE Outcome(save_map(MapRemove(loaded.val, name)), Ok(Unit))

JsonDelete(f, name) ==
    LET loaded == load_map(f)
    IN  IF ~loaded.ok THEN Outcome(f, loaded)
        ELSE Outcome(save_map(MapRemove(loaded.val, name)), Ok(Unit))

----------------------------------------------------------------------------
(* impl SnippetStorage for SqliteStorage: db is the set of rows of the     *)
(* table snippets; each operation is one SQL statement.                     *)

Row(snippet) ==
    [name |-> snippet.name, code |-> snippet.code, created_at |-> snippet.created_at]

\* Mutant: the table is emptied before the insert.
SqliteSave_ReplaceAll(rows, snippet) == {Row(snippet)}

\* Mutant: the conflict clause updates code only.
SqliteSave_CodeOnly(rows, snippet) ==
    IF \E row \in rows : row.name = snippet.name
    THEN {IF row.name = snippet.name
          THEN [row EXCEPT !.code = snippet.code]
          ELSE row : row \in rows}
    ELSE rows \cup {Row(snippet)}

\* INSERT ... ON CONFLICT(name) DO UPDATE SET code = excluded.code,
\*                                            created_at = excluded.created_at
SqliteSave(rows, snippet) ==
    IF \E row \in rows : row.name = snippet.name
    THEN {IF row.name = snippet.name
          THEN [row EXCEPT !.code = snippet.code, !.created_at = snippet.created_at]
          ELSE row : row \in rows}
    ELSE rows \cup {Row(snippet)}

\* Mutant: created_at is read from column 1 instead of column 2.
SqliteGet_ColumnMixup(rows, name) ==
    IF \E row \in rows : row.name = name
    THEN LET row == CHOOSE row \in rows : row.name = name
         IN  Ok(Some([name |-> row.name, code |-> row.code,
                      created_at |-> row.code]))
    ELSE Ok(None)

\* SELECT name, code, created_at FROM snippets WHERE name = ?1, query_row +
\* optional(): the first matching row, or None when there is none.
SqliteGet(rows, name) ==
    IF \E row \in rows : row.name = name
    THEN LET row == CHOOSE row \in rows : row.name = name
         IN  Ok(Some([name |-> row.name, code |-> row.code,
                      created_at |-> row.created_at]))
    ELSE Ok(None)

\* Mutant: the statement matches no row.
SqliteDelete_NoMatch(rows, name) == rows

\* DELETE FROM snippets WHERE name = ?1
SqliteDelete(rows, name) == {row \in rows : row.name # name}

----------------------------------------------------------------------------
(* build_storage_from_env.  A configuration string is a sequence of         *)
(* characters.                                                              *)

JSON == <<"J", "S", "O", "N">>
SQLITE == <<"S", "Q", "L", "I", "T", "E">>
DefaultValue == JSON \o <<":">> \o <<"s", "n", "i", "p", "p", "e", "t", "s", ".", "j", "s", "o", "n">>

\* Mutant: the split is made at the last ':' (rsplit_once).
split_once_Last(s) ==
    IF \E i \in 1..Len(s) : s[i] = ":"
    THEN LET i == CHOOSE i \in 1..Len(s) :
                    s[i] = ":" /\ \A j \in (i + 1)..Len(s) : s[j] # ":"
         IN  Some(<<SubSeq(s, 1, i - 1), SubSeq(s, i + 1, Len(s))>>)
    ELSE None

\* str::split_once(':'): the text before the first ':' and the text after it.
split_once(s) ==
    IF \E i \in 1..Len(s) : s[i] = ":"
    THEN LET i == CHOOSE i \in 1..Len(s) :
                    s[i] = ":" /\ \A j \in 1..(i - 1) : s[j] # ":"
         IN  Some(<<SubSeq(s, 1, i - 1), SubSeq(s, i + 1, Len(s))>>)
    ELSE None

\* JsonStorage::new
JsonStorageNew(path) == [backend |-> "JsonStorage", path |-> path]

\* SqliteStorage::new, the database opening and the table being created.
SqliteStorageNew(path) == Ok([backend |-> "SqliteStorage", path |-> path])

Message(text, arg) == [text |-> text, arg |-> arg]

\* Mutant: the kind is matched without regard to case.
MatchKind_IgnoreCase(kind, path) ==
    LET ToUpper(ch) ==
            CASE ch = "j" -> "J" [] ch = "s" -> "S" [] ch = "o" -> "O"
              [] ch = "n" -> "N" [] ch = "q" -> "Q" [] ch = "l" -> "L"
              [] ch = "i" -> "I" [] ch = "t" -> "T" [] ch = "e" -> "E"
              [] OTHER -> ch
        upper == [i \in 1..Len(kind) |-> ToUpper(kind[i])]
    IN  IF upper = JSON THEN Ok([backend |-> "JsonStorage", path |-> path])
        ELSE IF upper = SQLITE THEN Ok([backend |-> "SqliteStorage", path |-> path])
        ELSE Err([text |-> "Unsupported storage type: {other}", arg |-> kind])

\* Mutant: an unrecognized kind falls back to the JSON backend.
MatchKind_FallBackToJson(kind, path) ==
    IF kind = SQLITE THEN SqliteStorageNew(path)
    ELSE Ok(JsonStorageNew(path))

\* match kind { "JSON" => .., "SQLITE" => .., other => bail!(..) }
MatchKind(kind, path) ==
    IF kind = JSON THEN Ok(JsonStorageNew(path))
    ELSE IF kind = SQLITE THEN SqliteStorageNew(path)
    ELSE Err(Message("Unsupported storage type: {other}", kind))

\* Mutant: an unset variable reads as the empty string (unwrap_or_default).
EnvValue_EmptyDefault(e) == IF e.some THEN e.val ELSE <<>>

\* env::var("SNIPPETS_APP_STORAGE").unwrap_or_else(|_| "JSON:snippets.json")
EnvValue(e) == IF e.some THEN e.val ELSE DefaultValue

\* Mutant: a value without ':' is taken as the path of a JSON file.
build_storage_from_env_BarePath(e) ==
    LET parts == split_once(EnvValue(e))
    IN  IF ~parts.some
        THEN Ok(JsonStorageNew(EnvValue(e)))
        ELSE MatchKind(parts.val[1], parts.val[2])

\* Mutant: the first result is kept and returned by every later call.
build_storage_from_env_Cached(e) ==
    IF built.op = "build" THEN built.res
    ELSE LET parts == split_once(EnvValue(e))
         IN  IF ~parts.some
             THEN Err(Message("SNIPPETS_APP_STORAGE must look like JSON:/path/snippets.json or SQLITE:/path/snippets.sqlite", <<>>))
             ELSE MatchKind(parts.val[1], parts.val[2])

build_storage_from_env(e) ==
    LET parts == split_once(EnvValue(e))
    IN  IF ~parts.some
        THEN Err(Message("SNIPPETS_APP_STORAGE must look like JSON:/path/snippets.json or SQLITE:/path/snippets.sqlite", <<>>))
        ELSE MatchKind(parts.val[1], parts.val[2])

----------------------------------------------------------------------------
(* Sequential use of one JSON backend and one SQLite backend, driven with   *)
(* the same calls (as the tests do with each backend).                      *)

NoCall == [op |-> "none"]

\* main has not run
NoRun == [pc |-> "none"]

\* Whether each backend holds a record under the name, and which one.
JsonHad(name) == load_map(file).ok /\ name \in Keys(load_map(file).val)
SqliteHad(name) == \E row \in db : row.name = name
JsonOld(name) == IF JsonHad(name) THEN MapGet(load_map(file).val, name) ELSE None
SqliteOld(name) == SqliteGet(db, name).val

\* What a get or delete call records of the call before it, when that call
\* was on the same name.
Summary(c) ==
    IF c.op = "save"
    THEN [op |-> "save", jok |-> c.jres.ok, sok |-> c.sres.ok,
          snippet |-> c.snippet, jold |-> c.jold, sold |-> c.sold]
    ELSE IF c.op = "delete"
    THEN [op |-> "delete", jok |-> c.jres.ok, sok |-> c.sres.ok,
          jhad |-> c.jhad, shad |-> c.shad, twice |-> c.after.op = "delete"]
    ELSE [op |-> "get", jok |-> c.jres.ok, sok |-> c.sres.ok]

After(name) ==
    IF last.op # "none" /\ last.name = name THEN Summary(last) ELSE NoCall

\* The never-saved-to file: absent, empty, or blank.
FreshFiles == {NoFile, FileOf(<<>>), FileOf(<<WS>>)}

Init ==
    /\ file \in FreshFiles
    /\ db = {}
    /\ last = NoCall
    /\ env = None
    /\ built = NoCall
    /\ procs = <<>>
    /\ writer = None
    /\ whole = {}
    /\ table = TRUE
    /\ run = NoRun
    /\ posts = <<>>

\* storage.save(&snippet) on each backend
Save(snippet) ==
    LET o == JsonSave(file, snippet) IN
        /\ file' = o.file
        /\ db' = SqliteSave(db, snippet)
        /\ last' = [op |-> "save", name |-> snippet.name, snippet |-> snippet,
                    jres |-> o.res, sres |-> Ok(Unit),
                    jold |-> JsonOld(snippet.name),
                    sold |-> SqliteOld(snippet.name)]
        /\ UNCHANGED <<postVars, cliVars, selVars, procVars>>

\* storage.get(name) on each backend
Get(name) ==
    LET o == JsonGet(file, name) IN
        /\ file' = o.file
        /\ db' = db
        /\ last' = [op |-> "get", name |-> name,
                    jres |-> o.res, sres |-> SqliteGet(db, name),
                    after |-> After(name)]
        /\ UNCHANGED <<postVars, cliVars, selVars, procVars>>

\* storage.delete(name) on each backend
Delete(name) ==
    LET o == JsonDelete(file, name) IN
        /\ file' = o.file
        /\ db' = SqliteDelete(db, name)
        /\ last' = [op |-> "delete", name |-> name,
                    jres |-> o.res, sres |-> Ok(Unit),
                    jhad |-> JsonHad(name),
                    shad |-> SqliteHad(name),
                    after |-> After(name)]
        /\ UNCHANGED <<postVars, cliVars, selVars, procVars>>

Next ==
    \/ \E snippet \in Snippet : Save(snippet)
    \/ \E name \in Names : Get(name)
    \/ \E name \in Names : Delete(name)

Spec == Init /\ [][Next]_vars

----------------------------------------------------------------------------
(* Properties of sequential use (Spec) *)

\* C1 (round trip): when a get immediately follows a successful save of a
\* record under the same name, the get returns a record with exactly the
\* saved name, code and created_at, on the JSON backend and on the SQLite
\* backend.
C1_RoundTrip ==
    (last.op = "get" /\ last.after.op = "save") =>
        /\ last.after.jok => last.jres = Ok(Some(last.after.snippet))
        /\ last.after.sok => last.sres = Ok(Some(last.after.snippet))

C1_Witness ==
    /\ last.op = "get"
    /\ last.after.op = "save"
    /\ last.after.jok
    /\ last.after.sok

\* C2 (overwrite): when the saved name was already stored, the get that
\* follows returns the latest code and the latest created_at, whatever the
\* replaced record held, on both backends.
C2_Overwrite ==
    (last.op = "get" /\ last.after.op = "save") =>
        /\ (last.after.jok /\ last.after.jold.some) =>
              /\ last.jres.ok /\ last.jres.val.some
              /\ last.jres.val.val.code = last.after.snippet.code
              /\ last.jres.val.val.created_at = last.after.snippet.created_at
        /\ (last.after.sok /\ last.after.sold.some) =>
              /\ last.sres.ok /\ last.sres.val.some
              /\ last.sres.val.val.code = last.after.snippet.code
              /\ last.sres.val.val.created_at = last.after.snippet.created_at

\* The replaced record differed from the new one in code and in created_at.
C2_Witness ==
    /\ last.op = "get"
    /\ last.after.op = "save"
    /\ last.after.jold.some
    /\ last.after.sold.some
    /\ last.after.jold.val.code # last.after.snippet.code
    /\ last.after.jold.val.created_at # last.after.snippet.created_at
    /\ last.after.sold.val.code # last.after.snippet.code
    /\ last.after.sold.val.created_at # last.after.snippet.created_at

\* C3 (delete idempotence): a delete that immediately follows a delete of the
\* same name succeeds, as the first one did, and a get that immediately
\* follows a delete of the same name (the first or the second) returns
\* absence, on both backends.
C3_DeleteIdempotent ==
    /\ (last.op = "delete" /\ last.after.op = "delete") =>
          /\ last.after.jok /\ last.after.sok
          /\ last.jres = Ok(Unit) /\ last.sres = Ok(Unit)
    /\ (last.op = "get" /\ last.after.op = "delete") =>
          /\ last.jres = Ok(None)
          /\ last.sres = Ok(None)

\* A get after the second of two deletes.
C3_Witness ==
    /\ last.op = "get"
    /\ last.after.op = "delete"
    /\ last.after.twice

\* No member of the file's object has the key; no row has the name.
JsonStores(name) ==
    /\ file.exists
    /\ \E i \in 1..Len(file.content) :
          /\ file.content[i].t = "members"
          /\ \E e \in file.content[i].set : e.key = name
SqliteStores(name) == \E row \in db : row.name = name

\* C4 (absence): a get on a name that is not stored returns the explicit
\* absence value Ok(None), not an error; in particular on a backend whose
\* file does not exist yet or whose table is empty.
C4_AbsenceNotError ==
    last.op = "get" =>
        /\ ~JsonStores(last.name) => last.jres = Ok(None)
        /\ ~SqliteStores(last.name) => last.sres = Ok(None)

\* A get against the file that does not exist and the empty table.
C4_Witness ==
    /\ last.op = "get"
    /\ ~file.exists
    /\ db = {}

\* C5 (uniqueness): the persisted JSON object has at most one member per key
\* and the table at most one row per name.
C5_OneRecordPerName ==
    /\ \A i \in 1..Len(file.content) :
          file.content[i].t = "members" =>
              \A e1, e2 \in file.content[i].set : e1.key = e2.key => e1 = e2
    /\ \A r1, r2 \in db : r1.name = r2.name => r1 = r2

\* A save has just replaced a different record stored under its name.
C5_Witness ==
    /\ last.op = "save"
    /\ last.jold.some /\ last.jold.val # last.snippet
    /\ last.sold.some /\ last.sold.val # last.snippet
    /\ JsonStores(last.name)
    /\ SqliteStores(last.name)

\* C6 (cross-backend equivalence): the same calls having been applied to both
\* backends from the fresh state, every get returns the same result (the
\* same record, or absence) on the JSON backend and on the SQLite backend.
C6_SameGetResults == last.op = "get" => last.jres = last.sres

\* A get that returns a record, after an overwriting save.
C6_Witness ==
    /\ last.op = "get"
    /\ last.jres.ok /\ last.jres.val.some
    /\ last.after.op = "save"
    /\ last.after.jold.some

----------------------------------------------------------------------------
(* The selector: the environment variable is set or removed (as the tests   *)
(* do with std::env::set_var / remove_var) and build_storage_from_env is    *)
(* called.                                                                  *)

KindTexts ==
    {JSON, SQLITE, <<"F", "O", "O">>, <<"j", "s", "o", "n">>,
     <<"S", "q", "l", "i", "t", "e">>, <<"J", "S", "O", "N", "X">>, <<>>}

Locations ==
    {<<>>, <<":">>, <<":", "p">>, <<":", "p", ":", "q">>, <<":", ":", "p">>}

\* KIND, then nothing or a ':' and a location
EnvValues == {k \o l : k \in KindTexts, l \in Locations}

InitSel ==
    /\ file = NoFile
    /\ db = {}
    /\ last = NoCall
    /\ env = None
    /\ built = NoCall
    /\ procs = <<>>
    /\ writer = None
    /\ whole = {}
    /\ table = TRUE
    /\ run = NoRun
    /\ posts = <<>>

SetVar(v) ==
    /\ env' = Some(v)
    /\ UNCHANGED <<postVars, cliVars, file, db, last, built, procVars>>

RemoveVar ==
    /\ env' = None
    /\ UNCHANGED <<postVars, cliVars, file, db, last, built, procVars>>

\* let storage = build_storage_from_env(); the record keeps the call before
Build ==
    /\ built' = [op |-> "build", env |-> env, value |-> EnvValue(env),
                 res |-> build_storage_from_env(env),
                 prev |-> IF built.op = "build"
                          THEN [op |-> "build", env |-> built.env, res |-> built.res]
                          ELSE NoCall]
    /\ UNCHANGED <<postVars, cliVars, file, db, last, env, procVars>>

NextSel ==
    \/ \E v \in EnvValues : SetVar(v)
    \/ RemoveVar
    \/ Build

SpecSel == InitSel /\ [][NextSel]_vars

\* The text before the first ':' of a configuration string that has one.
HasKind(s, kind) ==
    \E i \in 1..Len(s) :
        /\ s[i] = ":"
        /\ kind = [j \in 1..(i - 1) |-> s[j]]
        /\ \A j \in 1..(i - 1) : s[j] # ":"

\* C10 (unknown backend kind): when the text before the first ':' of the
\* configuration string is neither JSON nor SQLITE, build_storage_from_env
\* returns an error whose message carries that text, and no backend.
C10_UnknownKindIsError ==
    built.op = "build" =>
        \A k \in KindTexts \ {JSON, SQLITE} :
            HasKind(built.value, k) =>
                /\ ~built.res.ok
                /\ built.res.err.text = "Unsupported storage type: {other}"
                /\ built.res.err.arg = k

\* FOO:p was built.
C10_Witness ==
    /\ built.op = "build"
    /\ built.value = <<"F", "O", "O", ":", "p">>
    /\ ~built.res.ok

----------------------------------------------------------------------------
(* Concurrent invocations.  Each invocation of the program (main) builds    *)
(* its own backend over the shared location and makes one storage call.     *)

\* The storage call main makes: save (--name), get (--read), delete (--delete)
MainCalls ==
    {[op |-> "save", name |-> snippet.name, snippet |-> snippet] :
        snippet \in Snippet}
    \cup {[op |-> "get", name |-> n] : n \in Names}
    \cup {[op |-> "delete", name |-> n] : n \in Names}

Idle == [pc |-> "idle"]

(* The JSON file shared by two invocations.  The file system calls of a     *)
(* storage call are separate steps: load_map reads the file; fs::write      *)
(* first creates or truncates it (File::create) and then writes the data at *)
(* offset 0 (write_all).                                                    *)

FileProcs == {1, 2}

\* A file nobody wrote yet, or the file one earlier save left.
InitFile ==
    /\ file \in {NoFile} \cup {JsonSave(NoFile, snippet).file : snippet \in Snippet}
    /\ db = {}
    /\ last = NoCall
    /\ env = None
    /\ built = NoCall
    /\ procs = [p \in FileProcs |-> Idle]
    /\ writer = None
    /\ whole = {file}
    /\ table = TRUE
    /\ run = NoRun
    /\ posts = <<>>

\* The mapping save and delete write back.
Updated(map, c) ==
    IF c.op = "save" THEN MapInsert(map, c.name, c.snippet)
    ELSE MapRemove(map, c.name)

\* Mutant: the data is appended to the content instead of replacing it.
WriteAt0_Append(content, data) == content \o data

\* write_all at offset 0 of the file as it is now: content beyond the data
\* stays.
WriteAt0(content, data) ==
    data \o SubSeq(content, Len(data) + 1, Len(content))

\* self.load_map()?, and for get the return
Load(p, c) ==
    /\ procs[p].pc = "idle"
    /\ LET loaded == load_map(file)
       IN  procs' = [procs EXCEPT ![p] =
               IF ~loaded.ok
               THEN [pc |-> "done", call |-> c, seen |-> file, res |-> loaded]
               ELSE IF c.op = "get"
               THEN [pc |-> "done", call |-> c, seen |-> file,
                     res |-> Ok(MapGet(loaded.val, c.name))]
               ELSE [pc |-> "create", call |-> c, seen |-> file,
                     data |-> to_string_pretty(Updated(loaded.val, c))]]
    /\ UNCHANGED <<postVars, cliVars, file, db, seqVars, selVars, writer, whole>>

\* fs::write, File::create: the file exists and is empty
Create(p) ==
    /\ procs[p].pc = "create"
    /\ file' = FileOf(<<>>)
    /\ whole' = whole \cup {FileOf(procs[p].data)}
    /\ procs' = [procs EXCEPT ![p].pc = "write"]
    /\ UNCHANGED <<postVars, cliVars, db, seqVars, selVars, writer>>

\* fs::write, write_all; the call returns Ok(())
Write(p) ==
    /\ procs[p].pc = "write"
    /\ file' = FileOf(WriteAt0(file.content, procs[p].data))
    /\ writer' = Some(p)
    /\ procs' = [procs EXCEPT ![p] =
           [pc |-> "done", call |-> procs[p].call, seen |-> procs[p].seen,
            data |-> procs[p].data, res |-> Ok(Unit)]]
    /\ UNCHANGED <<postVars, cliVars, db, seqVars, selVars, whole>>

NextFile ==
    \/ \E p \in FileProcs, c \in MainCalls : Load(p, c)
    \/ \E p \in FileProcs : Create(p)
    \/ \E p \in FileProcs : Write(p)

SpecFile == InitFile /\ [][NextFile]_vars

\* C7 (atomic replace), as the specification states it: whatever content an
\* invocation reads from the file is one of the complete contents the file
\* was given, never the file in the middle of being rewritten.
C7_ReaderSeesWholeContent ==
    \A p \in DOMAIN procs :
        procs[p].pc \in {"create", "write", "done"} => procs[p].seen \in whole

\* An invocation's fs::write is the latest one to complete, and no other is
\* between its File::create and its write_all.
Settled ==
    /\ writer.some
    /\ \A p \in DOMAIN procs : procs[p].pc # "write"

\* The entries an invocation read, and those its call leaves: the ones it
\* read under other names, and for a save its own record.
SeenEntries(p) == load_map(procs[p].seen).val
LeftBy(p) ==
    {e \in SeenEntries(p) : e.key # procs[p].call.name}
        \cup (IF procs[p].call.op = "save"
              THEN {Entry(procs[p].call.name, procs[p].call.snippet)}
              ELSE {})

----------------------------------------------------------------------------
(* The SQLite database shared by several invocations.  A storage call is    *)
(* one SQL statement, which the engine executes atomically.                 *)

SqlProcs == 1..NumProcs

InitSql ==
    /\ file = NoFile
    /\ db = {}
    /\ last = NoCall
    /\ env = None
    /\ built = NoCall
    /\ procs = [p \in SqlProcs |-> Idle]
    /\ writer = None
    /\ whole = {}
    /\ table = TRUE
    /\ run = NoRun
    /\ posts = <<>>

\* The rows a call's statement leaves, and the value the call returns.
SqliteRows(rows, c) ==
    IF c.op = "save" THEN SqliteSave(rows, c.snippet)
    ELSE IF c.op = "delete" THEN SqliteDelete(rows, c.name)
    ELSE rows
SqliteResult(rows, c) ==
    IF c.op = "get" THEN SqliteGet(rows, c.name) ELSE Ok(Unit)

\* main has parsed its arguments and built its backend
Start(p, c) ==
    /\ procs[p].pc = "idle"
    /\ procs' = [procs EXCEPT ![p] = [pc |-> "ready", call |-> c]]
    /\ UNCHANGED <<postVars, cliVars, file, db, seqVars, selVars, writer, whole>>

\* self.conn.execute(..) / self.conn.query_row(..)
Exec(p) ==
    /\ procs[p].pc = "ready"
    /\ db' = SqliteRows(db, procs[p].call)
    /\ procs' = [procs EXCEPT ![p] =
           [pc |-> "done", call |-> procs[p].call,
            res |-> SqliteResult(db, procs[p].call)]]
    /\ UNCHANGED <<postVars, cliVars, file, seqVars, selVars, writer, whole>>

NextSql ==
    \/ \E p \in SqlProcs, c \in MainCalls : Start(p, c)
    \/ \E p \in SqlProcs : Exec(p)

SpecSql == InitSql /\ [][NextSql]_vars

\* The invocations whose call has returned
Done == {p \in DOMAIN procs : procs[p].pc = "done"}

\* The ways of putting a set of invocations in a serial order
SerialOrders(S) ==
    {o \in [1..Cardinality(S) -> S] :
        \A i, j \in 1..Cardinality(S) : i # j => o[i] # o[j]}

RECURSIVE RowsAfter(_, _)
\* The rows after the first k calls of a serial order, from the empty table
RowsAfter(o, k) ==
    IF k = 0 THEN {}
    ELSE LET before == RowsAfter(o, k - 1)
             c == procs[o[k]].call
         IN  IF c.op = "save"
             THEN {row \in before : row.name # c.name} \cup {c.snippet}
             ELSE IF c.op = "delete"
             THEN {row \in before : row.name # c.name}
             ELSE before

\* What a get returns when it runs k-th in a serial order
SerialGet(o, k) ==
    LET before == RowsAfter(o, k - 1)
        name == procs[o[k]].call.name
    IN  IF \E row \in before : row.name = name
        THEN Ok(Some(CHOOSE row \in before : row.name = name))
        ELSE Ok(None)

\* C9 (relational concurrency safety): in every interleaving, the table
\* holds what the calls that have returned leave when run one after the other
\* in some serial order, each get having returned what it returns in that
\* order; and of two saves under different names that have returned, each
\* leaves its row unless a delete of that name has also run.
C9_Serializable ==
    /\ \E o \in SerialOrders(Done) :
          /\ db = RowsAfter(o, Cardinality(Done))
          /\ \A k \in 1..Cardinality(Done) :
                procs[o[k]].call.op = "get" => procs[o[k]].res = SerialGet(o, k)
    /\ \A p, q \in Done :
          (/\ procs[p].call.op = "save"
           /\ procs[q].call.op = "save"
           /\ procs[p].call.name # procs[q].call.name
           /\ \A r \in Done :
                 procs[r].call.op = "delete" =>
                     procs[r].call.name \notin {procs[p].call.name, procs[q].call.name})
          => /\ \E row \in db : row.name = procs[p].call.name
             /\ \E row \in db : row.name = procs[q].call.name

\* Two invocations have saved under different names; both calls have
\* returned and both rows are stored.
C9_Witness ==
    \E p, q \in Done :
        /\ procs[p].call.op = "save"
        /\ procs[q].call.op = "save"
        /\ procs[p].call.name # procs[q].call.name
        /\ procs[p].call.snippet \in db
        /\ procs[q].call.snippet \in db

----------------------------------------------------------------------------
(* Properties of the selector (SpecSel), continued *)

NoSeparator(s) == \A i \in 1..Len(s) : s[i] # ":"

\* s is kind, ':', location, with no ':' in kind
SplitsAs(s, kind, location) ==
    /\ s = kind \o <<":">> \o location
    /\ NoSeparator(kind)

\* C11 (malformed specifier): a configuration string without ':' makes
\* build_storage_from_env return the "must look like" error, and no backend.
C11_NoSeparatorIsError ==
    (built.op = "build" /\ NoSeparator(built.value)) =>
        /\ ~built.res.ok
        /\ built.res.err.text = "SNIPPETS_APP_STORAGE must look like JSON:/path/snippets.json or SQLITE:/path/snippets.sqlite"

\* The variable held FOO, without separator.
C11_Witness ==
    /\ built.op = "build"
    /\ built.env = Some(<<"F", "O", "O">>)
    /\ ~built.res.ok

\* C12 (split at the first ':'): when the string is JSON or SQLITE, ':' and
\* a remainder, the backend's location is the whole remainder, further ':'
\* included.
C12_LocationIsRemainder ==
    built.op = "build" =>
        \A k \in {JSON, SQLITE} :
            \A n \in 0..Len(built.value) :
                LET location == SubSeq(built.value, Len(built.value) - n + 1, Len(built.value))
                IN  SplitsAs(built.value, k, location) =>
                        /\ built.res.ok
                        /\ built.res.val.path = location

\* JSON:p:q gives the location p:q.
C12_Witness ==
    /\ built.op = "build"
    /\ built.value = JSON \o <<":", "p", ":", "q">>
    /\ built.res.ok
    /\ built.res.val.path = <<"p", ":", "q">>

\* C13 (exact, case-sensitive dispatch): kind JSON gives the JsonStorage at
\* the location, kind SQLITE the SqliteStorage at the location, and any other
\* kind (json, Sqlite, the empty text, ...) is an error.
C13_ExactDispatch ==
    built.op = "build" =>
        \A i \in 1..Len(built.value) :
            LET kind == SubSeq(built.value, 1, i - 1)
                location == SubSeq(built.value, i + 1, Len(built.value))
            IN  SplitsAs(built.value, kind, location) =>
                    /\ kind = JSON =>
                          built.res = Ok([backend |-> "JsonStorage", path |-> location])
                    /\ kind = SQLITE =>
                          built.res = Ok([backend |-> "SqliteStorage", path |-> location])
                    /\ kind \notin {JSON, SQLITE} => ~built.res.ok

\* json:p was rejected.
C13_Witness ==
    /\ built.op = "build"
    /\ built.value = <<"j", "s", "o", "n", ":", "p">>
    /\ ~built.res.ok

\* C14 (default): with the variable unset the call returns what it returns
\* for JSON:snippets.json, the JsonStorage at snippets.json.
C14_UnsetIsDefault ==
    (built.op = "build" /\ ~built.env.some) =>
        /\ built.res = Ok([backend |-> "JsonStorage",
                           path |-> <<"s", "n", "i", "p", "p", "e", "t", "s", ".",
                                      "j", "s", "o", "n">>])
        /\ built.res = build_storage_from_env(
                           Some(<<"J", "S", "O", "N", ":", "s", "n", "i", "p", "p",
                                  "e", "t", "s", ".", "j", "s", "o", "n">>))

\* A call made after the variable was removed again.
C14_Witness ==
    /\ built.op = "build"
    /\ ~built.env.some
    /\ built.prev.op = "build"
    /\ built.prev.env.some

\* C20 (no state between calls): two successive calls that read the same
\* value return the same outcome; and when the value changed in between, a
\* call that returns a backend returns the one the new value names, which
\* differs from the backend of the call before.
C20_NoMemory ==
    (built.op = "build" /\ built.prev.op = "build") =>
        /\ built.env = built.prev.env => built.res = built.prev.res
        /\ (built.env # built.prev.env /\ built.res.ok) =>
              /\ Len(built.res.val.path) < Len(built.value)
              /\ built.res.val.path =
                    SubSeq(built.value, Len(built.value) - Len(built.res.val.path) + 1,
                           Len(built.value))
              /\ built.prev.res.ok => built.res # built.prev.res

\* A call that returned the SqliteStorage right after one that returned the
\* JsonStorage for another value.
C20_Witness ==
    /\ built.op = "build"
    /\ built.prev.op = "build"
    /\ built.env # built.prev.env
    /\ built.res.ok /\ built.prev.res.ok
    /\ built.res.val.backend = "SqliteStorage"
    /\ built.prev.res.val.backend = "JsonStorage"

----------------------------------------------------------------------------
(* A JSON backend opened over a file that something else may have written: *)
(* the same calls as in Spec, from any content.                             *)

\* Objects of records, as save_map writes them or with blanks around.
ObjectContents ==
    {<<LB, RB>>, <<WS, LB, WS, RB, WS>>,
     to_string_pretty({Entry(<<"a">>, [name |-> <<"a">>, code |-> 1, created_at |-> 1])})}

\* Truncated, unbalanced and foreign text.
BrokenContents ==
    {<<LB>>, <<RB>>, <<JUNK>>, <<WS, JUNK>>, <<LB, RB, JUNK>>, <<LB, LB, RB>>,
     <<LB, Members({}), WS>>}

DiskFiles == FreshFiles \cup {FileOf(c) : c \in ObjectContents \cup BrokenContents}

InitDisk ==
    /\ file \in DiskFiles
    /\ db = {}
    /\ last = NoCall
    /\ env = None
    /\ built = NoCall
    /\ procs = <<>>
    /\ writer = None
    /\ whole = {}
    /\ table = TRUE
    /\ run = NoRun
    /\ posts = <<>>

\* storage.save(&snippet) on each backend; the record keeps the call alone
DiskSave(snippet) ==
    \E o \in {JsonSave(file, snippet)} :
        /\ file' = o.file
        /\ db' = SqliteSave(db, snippet)
        /\ last' = [op |-> "save", name |-> snippet.name, snippet |-> snippet,
                    jres |-> o.res, sres |-> Ok(Unit)]
        /\ UNCHANGED <<postVars, cliVars, selVars, procVars>>

\* storage.get(name) on each backend
DiskGet(name) ==
    \E o \in {JsonGet(file, name)} :
        /\ file' = o.file
        /\ db' = db
        /\ last' = [op |-> "get", name |-> name,
                    jres |-> o.res, sres |-> SqliteGet(db, name)]
        /\ UNCHANGED <<postVars, cliVars, selVars, procVars>>

\* storage.delete(name) on each backend
DiskDelete(name) ==
    \E o \in {JsonDelete(file, name)} :
        /\ file' = o.file
        /\ db' = SqliteDelete(db, name)
        /\ last' = [op |-> "delete", name |-> name,
                    jres |-> o.res, sres |-> Ok(Unit)]
        /\ UNCHANGED <<postVars, cliVars, selVars, procVars>>

NextDisk ==
    \/ \E snippet \in Snippet : DiskSave(snippet)
    \/ \E name \in Names : DiskGet(name)
    \/ \E name \in Names : DiskDelete(name)

SpecDisk == InitDisk /\ [][NextDisk]_vars

Blank(f) == f.exists /\ \A i \in 1..Len(f.content) : f.content[i] = WS

\* The content is one object: '{', possibly members, '}', blanks anywhere.
IsObject(f) ==
    /\ f.exists
    /\ \E i, j \in 1..Len(f.content) :
          /\ i < j
          /\ f.content[i] = LB
          /\ f.content[j] = RB
          /\ \A k \in 1..Len(f.content) :
                \/ k \in {i, j}
                \/ f.content[k] = WS
                \/ i < k /\ k < j /\ f.content[k].t = "members"
          /\ Cardinality({k \in 1..Len(f.content) : f.content[k].t = "members"}) <= 1

Undecodable(f) == f.exists /\ ~Blank(f) /\ ~IsObject(f)

\* The entries an object holds
ObjectEntries(f) ==
    UNION {f.content[k].set : k \in {k \in 1..Len(f.content) : f.content[k].t = "members"}}

\* C15 as stated: with a medium that accepts every write, delete never
\* returns an error, whatever the file holds.
C15_DeleteFailsOnlyOnMedium ==
    last.op = "delete" => (last.jres.ok /\ last.sres.ok)

\* C15 (amended): delete succeeds whether or not the name was stored, and
\* with a writable medium it fails exactly when the file holds non-blank
\* content that does not decode; it then returns the parse error and leaves
\* the file as it was. The SQLite delete always succeeds.
C15_DeleteFailsOnUndecodable ==
    [][last'.op = "delete" =>
          /\ last'.sres.ok
          /\ last'.jres.ok <=> ~Undecodable(file)
          /\ ~last'.jres.ok =>
                /\ last'.jres.err = "Failed to parse JSON storage"
                /\ file' = file]_vars

\* A delete refused over a truncated file.
C15_Witness ==
    /\ last.op = "delete"
    /\ ~last.jres.ok
    /\ last.sres.ok
    /\ file = FileOf(<<LB>>)

\* C16 (load): from a missing file, and from an empty or blank one, every
\* operation runs on the empty mapping and succeeds; from an object it runs
\* on the decoded entries; from any other content save, get and delete
\* return the parse error.
C16_Load ==
    [][last'.op \in {"save", "get", "delete"} =>
          /\ (~file.exists \/ Blank(file)) =>
                /\ last'.jres.ok
                /\ last'.op = "get" => last'.jres.val = None
                /\ last'.op = "save" =>
                      file' = FileOf(<<LB, Members({Entry(last'.name, last'.snippet)}), RB>>)
                /\ last'.op = "delete" => file' = FileOf(<<LB, Members({}), RB>>)
          /\ IsObject(file) =>
                /\ last'.jres.ok
                /\ last'.op = "get" =>
                      /\ last'.jres.val.some <=>
                            \E e \in ObjectEntries(file) : e.key = last'.name
                      /\ last'.jres.val.some =>
                            Entry(last'.name, last'.jres.val.val) \in ObjectEntries(file)
          /\ Undecodable(file) =>
                last'.jres = Err("Failed to parse JSON storage")]_vars

\* A save refused over foreign text.
C16_Witness ==
    /\ last.op = "save"
    /\ last.jres = Err("Failed to parse JSON storage")
    /\ file = FileOf(<<WS, JUNK>>)

----------------------------------------------------------------------------
(* Names of stored records (Spec) *)

\* C17 (non-empty names): no entry of the JSON file and no row of the table
\* has the empty string as its name.
C17_NoEmptyName ==
    /\ \A row \in db : row.name # <<>>
    /\ load_map(file).ok =>
          \A e \in load_map(file).val : e.key # <<>> /\ e.value.name # <<>>

----------------------------------------------------------------------------
(* main: runs of the program one after another, under one value of the     *)
(* environment variable. file is the JSON file and db, table the SQLite     *)
(* database the value may name.                                             *)

\* A first run and a later one
CliRuns == {1, 2}

\* struct Cli, without --download (it selects where read_code reads from)
Cli == [name : {None} \cup {Some(n) : n \in Names},
        read : {None} \cup {Some(n) : n \in Names},
        delete : {None} \cup {Some(n) : n \in Names}]

\* What read_code can return: the body, or a failure of stdin or of the GET
ReadCodeResults == {Ok(c) : c \in Codes} \cup {Err("Failed to read from stdin")}

CliEnvs ==
    {None, Some(JSON \o <<":", "p">>), Some(SQLITE \o <<":", "p">>),
     Some(<<"F", "O", "O", ":", "p">>), Some(<<"p">>)}

\* Mutant: the table is dropped and created again.
CreateTable_Recreate(st) == [st EXCEPT !.table = TRUE, !.rows = {}]

\* CREATE TABLE IF NOT EXISTS snippets(..) in SqliteStorage::new
CreateTable(st) ==
    [st EXCEPT !.table = TRUE, !.rows = IF st.table THEN st.rows ELSE {}]

\* Constructing the selected backend: only SqliteStorage::new touches the medium
Open(storage, st) ==
    IF storage.backend = "SqliteStorage" THEN CreateTable(st) ELSE st

\* storage.save(&snippet) through Box<dyn SnippetStorage>
StorageSave(storage, st, snippet) ==
    IF storage.backend = "JsonStorage"
    THEN LET o == JsonSave(st.file, snippet)
         IN  [st EXCEPT !.file = o.file, !.res = o.res, !.ops = Append(@, "save")]
    ELSE [st EXCEPT !.rows = SqliteSave(@, snippet), !.res = Ok(Unit),
                    !.ops = Append(@, "save")]

\* storage.get(&name)
StorageGet(storage, st, name) ==
    IF storage.backend = "JsonStorage"
    THEN LET o == JsonGet(st.file, name)
         IN  [st EXCEPT !.file = o.file, !.res = o.res, !.ops = Append(@, "get")]
    ELSE [st EXCEPT !.res = SqliteGet(st.rows, name), !.ops = Append(@, "get")]

\* storage.delete(&name)
StorageDelete(storage, st, name) ==
    IF storage.backend = "JsonStorage"
    THEN LET o == JsonDelete(st.file, name)
         IN  [st EXCEPT !.file = o.file, !.res = o.res, !.ops = Append(@, "delete")]
    ELSE [st EXCEPT !.rows = SqliteDelete(@, name), !.res = Ok(Unit),
                    !.ops = Append(@, "delete")]

\* if let Some(name) = cli.name: read the body, save, print "saved"
SaveBranch(cli, storage, st, body, now) ==
    IF ~body.ok THEN [st EXCEPT !.res = body, !.arg = cli.name]
    ELSE StorageSave(storage, [st EXCEPT !.arg = cli.name],
                     [name |-> cli.name.val, code |-> body.val, created_at |-> now])

\* if let Some(name) = cli.read: get, print the code or "not found"
ReadBranch(cli, storage, st) ==
    LET got == StorageGet(storage, [st EXCEPT !.arg = cli.read], cli.read.val)
    IN  IF ~got.res.ok THEN got
        ELSE [got EXCEPT !.res = Ok(Unit),
                         !.out = IF got.res.val.some
                                 THEN Some(got.res.val.val.code)
                                 ELSE None]

\* if let Some(name) = cli.delete: delete, print "deleted (if it existed)"
DeleteBranch(cli, storage, st) ==
    StorageDelete(storage, [st EXCEPT !.arg = cli.delete], cli.delete.val)

\* Mutant: the branches do not return, so each flag given has its turn.
Dispatch_FallThrough(cli, storage, st, body, now) ==
    LET s1 == IF cli.name.some THEN SaveBranch(cli, storage, st, body, now) ELSE st
        s2 == IF cli.read.some /\ s1.res.ok THEN ReadBranch(cli, storage, s1) ELSE s1
    IN  IF cli.delete.some /\ s2.res.ok THEN DeleteBranch(cli, storage, s2) ELSE s2

\* main after the backend is built: the first flag given, in the order
\* --name, --read, --delete, decides; with none, print_usage.
Dispatch(cli, storage, st, body, now) ==
    IF cli.name.some THEN SaveBranch(cli, storage, st, body, now)
    ELSE IF cli.read.some THEN ReadBranch(cli, storage, st)
    ELSE IF cli.delete.some THEN DeleteBranch(cli, storage, st)
    ELSE st

RunIndex == IF run.pc = "none" THEN 0 ELSE run.index

Flags(cli) ==
    [name |-> cli.name.some, read |-> cli.read.some, delete |-> cli.delete.some]

\* Nothing exists yet, or the JSON file was left truncated.
InitCli ==
    /\ file \in {NoFile, FileOf(<<LB>>)}
    /\ db = {}
    /\ table = FALSE
    /\ run = NoRun
    /\ posts = <<>>
    /\ env \in CliEnvs
    /\ last = NoCall
    /\ built = NoCall
    /\ procs = <<>>
    /\ writer = None
    /\ whole = {}

\* One run of main, from Cli::parse to its return.
Main(cli, body, now) ==
    LET index == RunIndex + 1
        start == [file |-> file, table |-> table, rows |-> db, ops |-> <<>>,
                  res |-> Ok(Unit), out |-> None, arg |-> None]
    IN  /\ index \in CliRuns
        /\ \E selected \in {build_storage_from_env(env)} :
              IF ~selected.ok
              THEN /\ run' = [pc |-> "exited", index |-> index,
                              flags |-> Flags(cli), read_ok |-> TRUE,
                              backends |-> 0, ops |-> <<>>,
                              res |-> Err("Failed to initialize storage"),
                              out |-> None, arg |-> None]
                   /\ UNCHANGED <<file, db, table>>
              ELSE \E done \in {Dispatch(cli, selected.val,
                                         Open(selected.val, start), body, now)} :
                      /\ file' = done.file
                      /\ db' = done.rows
                      /\ table' = done.table
                      /\ run' = [pc |-> "exited", index |-> index,
                                 flags |-> Flags(cli),
                                 read_ok |-> ~cli.name.some \/ body.ok,
                                 backends |-> 1, ops |-> done.ops,
                                 res |-> done.res, out |-> done.out,
                                 arg |-> done.arg]
        /\ UNCHANGED <<last, env, built, procVars, postVars>>

NextCli ==
    \E cli \in Cli : \E body \in ReadCodeResults : \E now \in Times :
        Main(cli, body, now)

SpecCli == InitCli /\ [][NextCli]_vars

C19_InitIdempotent ==
    [][(run' # run /\ table /\ env = Some(<<"S", "Q", "L", "I", "T", "E", ":", "p">>)) =>
          /\ run'.backends = 1
          /\ table'
          /\ run'.ops = <<>> => db' = db
          /\ run'.ops = <<"get">> =>
                /\ db' = db
                /\ run'.res.ok
                /\ \A row \in db :
                      row.name = run'.arg.val => run'.out = Some(row.code)
                /\ (\A row \in db : row.name # run'.arg.val) => run'.out = None
          /\ run'.ops \in {<<"save">>, <<"delete">>} =>
                \A row \in db : row.name # run'.arg.val => row \in db']_vars

\* The later run read, through its own SqliteStorage, a record that the
\* first run had saved.
C19_Witness ==
    /\ run.pc = "exited"
    /\ run.index = 2
    /\ env = Some(<<"S", "Q", "L", "I", "T", "E", ":", "p">>)
    /\ run.ops = <<"get">>
    /\ run.out.some
    /\ db # {}

----------------------------------------------------------------------------
(* Frame properties of the trait calls *)

\* The entries the file holds, none when it does not decode
FileEntries(f) == UNION {IF loaded.ok THEN loaded.val ELSE {} : loaded \in {load_map(f)}}

\* C22 (frame of save and delete): a save or delete that succeeds leaves, on
\* each backend, every record stored under another name as it was: the JSON
\* entry with its key and value, the SQLite row with its three columns.
C22_OtherRecordsKept ==
    [][last'.op \in {"save", "delete"} =>
          /\ last'.jres.ok =>
                \A e \in FileEntries(file) :
                    e.key # last'.name => e \in FileEntries(file')
          /\ last'.sres.ok =>
                \A row \in db : row.name # last'.name => row \in db']_vars

\* A delete that succeeded with a record under another name in the file and
\* in the table.
C22_Witness ==
    /\ last.op = "delete"
    /\ last.jres.ok
    /\ last.sres.ok
    /\ \E e \in FileEntries(file) : e.key # last.name
    /\ \E row \in db : row.name # last.name

\* C23 (get is read-only): a get, whatever it returns, leaves the file and
\* the table as they were, so a missing file stays missing; a delete on a
\* missing file writes the file, holding the empty object.
C23_GetReadOnly ==
    [][/\ last'.op = "get" => (file' = file /\ db' = db)
       /\ (last'.op = "delete" /\ ~file.exists) =>
             file' = FileOf(<<LB, Members({}), RB>>)]_vars

\* A get that found nothing, the file still missing.
C23_Witness ==
    /\ last.op = "get"
    /\ last.jres = Ok(None)
    /\ file = NoFile

\* C24 (no write on load failure): a save or delete that the JSON backend
\* refuses because the file does not decode leaves the file exactly as it
\* was.
C24_FailedLoadWritesNothing ==
    [][(last'.op \in {"save", "delete"} /\ ~last'.jres.ok) => file' = file]_vars

\* A save refused over an unbalanced object, the file as before.
C24_Witness ==
    /\ last.op = "save"
    /\ ~last.jres.ok
    /\ file = FileOf(<<LB, LB, RB>>)

\* C25 (key/name agreement): from a missing, empty or blank file, every
\* entry of the file is stored under the name of its record, and a get of
\* n that returns a record returns one named n.
C25_KeyIsName ==
    /\ \A e \in FileEntries(file) : e.key = e.value.name
    /\ (last.op = "get" /\ last.jres.ok /\ last.jres.val.some) =>
          last.jres.val.val.name = last.name

\* A get that returned a record while the file held two entries.
C25_Witness ==
    /\ last.op = "get"
    /\ last.jres.ok
    /\ last.jres.val.some
    /\ Cardinality(FileEntries(file)) = 2

----------------------------------------------------------------------------
(* struct Post<State>: the state is the type parameter, so a method exists *)
(* only for the values of its impl block, and takes the value it is called *)
(* on (self), returning the value of the next type.                         *)

PostIds == 1..NumPosts

\* The titles and bodies the tests use
Titles == {"Hello", "Title"}
Bodies == {"Rust", "Body"}

\* No value is bound
NoPost == [post |-> [state |-> "none"], was |-> <<>>]

\* Post::new
Post_new(t, b) == [title |-> t, body |-> b, state |-> "New"]

\* Post<New>::submit_for_moderation
submit_for_moderation(self) ==
    [title |-> self.title, body |-> self.body, state |-> "Unmoderated"]

\* Mutant: the fields are moved into each other's place.
allow_FieldsSwapped(self) ==
    [title |-> self.body, body |-> self.title, state |-> "Published"]

\* Post<Unmoderated>::allow
allow(self) == [title |-> self.title, body |-> self.body, state |-> "Published"]

\* Post<Unmoderated>::deny
deny(self) == [title |-> self.title, body |-> self.body, state |-> "Deleted"]

\* Post<Published>::delete
delete(self) == [title |-> self.title, body |-> self.body, state |-> "Deleted"]

\* Post<Published>::title, Post<Deleted>::title
title(self) == self.title

\* Post<Published>::body
body(self) == self.body

\* impl Post<New>: the values submit_for_moderation can be called on
ImplNew(self) == self.state = "New"

\* Mutant: the methods are in impl<State> Post<State>, callable on any post.
ImplUnmoderated_AnyState(self) == self.state # "none"

\* impl Post<Unmoderated>: the values allow and deny can be called on
ImplUnmoderated(self) == self.state = "Unmoderated"

\* impl Post<Published>: the values delete can be called on
ImplPublished(self) == self.state = "Published"

InitPost ==
    /\ posts = [id \in PostIds |-> NoPost]
    /\ file = NoFile
    /\ db = {}
    /\ last = NoCall
    /\ env = None
    /\ built = NoCall
    /\ procs = <<>>
    /\ writer = None
    /\ whole = {}
    /\ table = FALSE
    /\ run = NoRun

otherVars == <<file, db, seqVars, selVars, procVars, cliVars>>

\* The value a method returned takes the place of the one it consumed.
Moved(id, next) ==
    posts' = [posts EXCEPT ![id].post = next, ![id].was = Append(@, next.state)]

\* let post = Post::new(t, b);
CreatePost(id, t, b) ==
    /\ posts[id] = NoPost
    /\ posts' = [posts EXCEPT ![id] = [post |-> Post_new(t, b),
                                       given |-> [title |-> t, body |-> b],
                                       was |-> <<"New">>]]
    /\ UNCHANGED otherVars

\* let post = post.submit_for_moderation();
SubmitForModeration(id) ==
    /\ ImplNew(posts[id].post)
    /\ Moved(id, submit_for_moderation(posts[id].post))
    /\ UNCHANGED otherVars

\* let post = post.allow();
Allow(id) ==
    /\ ImplUnmoderated(posts[id].post)
    /\ Moved(id, allow(posts[id].post))
    /\ UNCHANGED otherVars

\* let post = post.deny();
Deny(id) ==
    /\ ImplUnmoderated(posts[id].post)
    /\ Moved(id, deny(posts[id].post))
    /\ UNCHANGED otherVars

\* let post = post.delete();
DeletePost(id) ==
    /\ ImplPublished(posts[id].post)
    /\ Moved(id, delete(posts[id].post))
    /\ UNCHANGED otherVars

NextPost ==
    \E id \in PostIds :
        \/ \E t \in Titles : \E b \in Bodies : CreatePost(id, t, b)
        \/ SubmitForModeration(id)
        \/ Allow(id)
        \/ Deny(id)
        \/ DeletePost(id)

SpecPost == InitPost /\ [][NextPost]_vars

\* C21 (title preserved): title() of a Published or Deleted post is the
\* title the post was created with, and body() of a Published post is the
\* body it was created with.
C21_TitlePreserved ==
    \A id \in PostIds :
        /\ posts[id].post.state \in {"Published", "Deleted"} =>
              title(posts[id].post) = posts[id].given.title
        /\ posts[id].post.state = "Published" =>
              body(posts[id].post) = posts[id].given.body

\* A post created with ("Title", "Body"), deleted after it was published,
\* and another created with ("Hello", "Rust") that is published.
C21_Witness ==
    \E i, j \in PostIds :
        /\ posts[i].was = <<"New", "Unmoderated", "Published", "Deleted">>
        /\ posts[i].given = [title |-> "Title", body |-> "Body"]
        /\ posts[j].post.state = "Published"
        /\ posts[j].given = [title |-> "Hello", body |-> "Rust"]

\* The moves of a post: creation, and the four methods
PostMoves ==
    {<<"none", "New">>, <<"New", "Unmoderated">>, <<"Unmoderated", "Published">>,
     <<"Unmoderated", "Deleted">>, <<"Published", "Deleted">>}

\* C26 (lifecycle order): a post changes only by New -> Unmoderated,
\* Unmoderated -> Published, Unmoderated -> Deleted or Published -> Deleted
\* (after its creation as New); a Published post has been Unmoderated; and a
\* Deleted post never changes again.
C26_LifecycleOrder ==
    [][\A id \in PostIds :
          /\ posts'[id] # posts[id] =>
                <<posts[id].post.state, posts'[id].post.state>> \in PostMoves
          /\ posts[id].post.state = "Deleted" => posts'[id] = posts[id]
          /\ posts'[id].post.state = "Published" =>
                \E k \in DOMAIN posts'[id].was : posts'[id].was[k] = "Unmoderated"]_vars

\* One post deleted by deny, another deleted after publication.
C26_Witness ==
    \E i, j \in PostIds :
        /\ posts[i].was = <<"New", "Unmoderated", "Deleted">>
        /\ posts[j].was = <<"New", "Unmoderated", "Published", "Deleted">>

====
